---- MODULE Spec2Model ----
(***************************************************************************)
(* State-machine model of gocam-model.py: the GOCam graph container, the   *)
(* Evidence contributor map, the Activity context map, the evidence map    *)
(* of an EvidencedRelationship, the role constructors Activity / Context   *)
(* and the same() predicates of the entity hierarchy.                      *)
(*                                                                         *)
(* Python results are modelled as strings: "True", "False", "None" for     *)
(* returned values, "ok" for a constructor that returned, and the name of  *)
(* the exception class for a call that raised.                             *)
(*                                                                         *)
(* The classes are modelled as loaded: the annotations that name a class   *)
(* inside its own body (line 50) are taken as not evaluated at definition  *)
(* time.  Methods are duck-typed, so the containers are driven with any    *)
(* object that carries the id they read.                                   *)
(***************************************************************************)
EXTENDS Integers, Sequences, FiniteSets, TLC

VARIABLES
    node,            \* GOCam.graph: node id -> node attribute "data"
    adj,             \* GOCam.graph: <<u,v>> -> types of the parallel edges u->v
    live,            \* history: triples added successfully, no endpoint removed since
    dropped,         \* history: the pairs whose edges the last call deleted
    contributors,    \* Evidence.contributors
    context_targets, \* Activity.context_targets
    evidences,       \* EvidencedRelationship.evidences
    contexts,        \* GOCam.contexts
    term,            \* the Term handed to a role constructor
    made,            \* the object a role constructor returned, or NoObject
    x, y,            \* the two entities compared by same()
    call,            \* the last call: [op, args]
    ret              \* its result

graphVars == <<node, adj, live, dropped>>
otherVars == <<contributors, context_targets, evidences, contexts, term, made, x, y>>
vars == <<node, adj, live, dropped, contributors, context_targets, evidences, contexts,
          term, made, x, y, call, ret>>

(* ---------------------------------------------------------------------- *)
(* Bounds                                                                  *)
(* ---------------------------------------------------------------------- *)
MaxEdges == 3           \* edges the graph may hold
NumContributors == 3    \* distinct contributor ids
NumAssociations == 3    \* distinct context association ids

ActivityIds == {"A1", "A2", "A3"}
Payloads == {"o1", "o2"}
RelationTypes == {"RO:0002413", "RO:0002412"}

(* the Activity objects handed to the container: the id of each and the   *)
(* object's identity; two distinct objects carry the id "A1"              *)
Activities == {a \in [id : ActivityIds, obj : Payloads] : a.obj = "o2" => a.id = "A1"}

Restrict(f, S) == [e \in S |-> f[e]]

(* ---------------------------------------------------------------------- *)
(* networkx.MultiDiGraph, as used by GOCam                                 *)
(*   node : registered node id -> the "data" attribute of the node         *)
(*   adj  : ordered pair <<u,v>> with at least one edge -> the types of    *)
(*          the parallel edges u->v, in key order (key k is index k+1)     *)
(* ---------------------------------------------------------------------- *)
NoData == "nodata"

graph_has_node(n) == n \in DOMAIN node

graph_add_node(n, data) ==
    [m \in (DOMAIN node) \cup {n} |-> IF m = n THEN data ELSE node[m]]

graph_remove_node_nodes(n) == Restrict(node, (DOMAIN node) \ {n})

graph_remove_node_adj(n) == Restrict(adj, {p \in DOMAIN adj : p[1] # n /\ p[2] # n})

graph_get_edge_data(u, v) ==
    IF <<u, v>> \in DOMAIN adj
    THEN [found |-> TRUE, keydict |-> adj[<<u, v>>]]
    ELSE [found |-> FALSE, keydict |-> <<>>]

graph_add_edge_nodes(u, v) ==
    [m \in (DOMAIN node) \cup {u, v} |-> IF m \in DOMAIN node THEN node[m] ELSE NoData]

graph_add_edge_adj(u, v, ty) ==
    [p \in (DOMAIN adj) \cup {<<u, v>>} |->
        IF p = <<u, v>>
        THEN (IF p \in DOMAIN adj THEN Append(adj[p], ty) ELSE <<ty>>)
        ELSE adj[p]]

RECURSIVE SumLen(_)
SumLen(S) == IF S = {} THEN 0
             ELSE LET p == CHOOSE q \in S : TRUE IN Len(adj[p]) + SumLen(S \ {p})

NumEdges == SumLen(DOMAIN adj)

(* ---------------------------------------------------------------------- *)
(* GOCam                                                                   *)
(* ---------------------------------------------------------------------- *)
GOCam_has_activity(activity_id) == graph_has_node(activity_id)

\* variant: registers the node without looking for an existing one
GOCam_add_activity_overwrite(activity) ==
    /\ call' = [op |-> "add_activity", args |-> <<activity>>]
    /\ node' = graph_add_node(activity.id, activity.obj)
    /\ ret' = "True"
    /\ dropped' = {}
    /\ UNCHANGED <<adj, live>>

GOCam_add_activity(activity) ==
    /\ call' = [op |-> "add_activity", args |-> <<activity>>]
    /\ IF GOCam_has_activity(activity.id)
       THEN /\ ret' = "False"
            /\ dropped' = {} /\ UNCHANGED <<node, adj, live>>
       ELSE /\ node' = graph_add_node(activity.id, activity.obj)
            /\ ret' = "True"
            /\ dropped' = {}
            /\ UNCHANGED <<adj, live>>

\* variant: deletes the node and its outgoing edges, not its incoming ones
GOCam_remove_activity_out_only(activity_id) ==
    /\ call' = [op |-> "remove_activity", args |-> <<activity_id>>]
    /\ IF ~GOCam_has_activity(activity_id)
       THEN /\ ret' = "False"
            /\ dropped' = {} /\ UNCHANGED <<node, adj, live>>
       ELSE /\ node' = graph_remove_node_nodes(activity_id)
            /\ adj' = Restrict(adj, {p \in DOMAIN adj : p[1] # activity_id})
            /\ live' = {t \in live : t[1] # activity_id /\ t[2] # activity_id}
            /\ dropped' = {p \in DOMAIN adj : p[1] = activity_id}
            /\ ret' = "True"

GOCam_remove_activity(activity_id) ==
    /\ call' = [op |-> "remove_activity", args |-> <<activity_id>>]
    /\ IF ~GOCam_has_activity(activity_id)
       THEN /\ ret' = "False"
            /\ dropped' = {} /\ UNCHANGED <<node, adj, live>>
       ELSE /\ node' = graph_remove_node_nodes(activity_id)
            /\ adj' = graph_remove_node_adj(activity_id)
            /\ live' = {t \in live : t[1] # activity_id /\ t[2] # activity_id}
            /\ dropped' = {p \in DOMAIN adj : p[1] = activity_id \/ p[2] = activity_id}
            /\ ret' = "True"

GOCam_has_causal_relationship(activity_id1, activity_id2, relation_type) ==
    /\ call' = [op |-> "has_causal_relationship",
                args |-> <<activity_id1, activity_id2, relation_type>>]
    /\ LET edges == graph_get_edge_data(activity_id1, activity_id2) IN
       ret' = IF ~edges.found THEN "TypeError"
              ELSE IF \E k \in DOMAIN edges.keydict : edges.keydict[k] = relation_type
                   THEN "True" ELSE "False"
    /\ dropped' = {} /\ UNCHANGED <<node, adj, live>>

\* variant: an edge of that type between the pair is not added a second time
GOCam_add_causal_relationship_dedup(activity_id1, activity_id2, relation_type) ==
    /\ call' = [op |-> "add_causal_relationship",
                args |-> <<activity_id1, activity_id2, relation_type>>]
    /\ IF ~GOCam_has_activity(activity_id1) \/ ~GOCam_has_activity(activity_id2)
       THEN /\ ret' = "False"
            /\ dropped' = {} /\ UNCHANGED <<node, adj, live>>
       ELSE /\ node' = graph_add_edge_nodes(activity_id1, activity_id2)
            /\ adj' = IF <<activity_id1, activity_id2, relation_type>> \in live
                      THEN adj
                      ELSE graph_add_edge_adj(activity_id1, activity_id2, relation_type)
            /\ live' = live \cup {<<activity_id1, activity_id2, relation_type>>}
            /\ dropped' = {}
            /\ ret' = "True"

GOCam_add_causal_relationship(activity_id1, activity_id2, relation_type) ==
    /\ call' = [op |-> "add_causal_relationship",
                args |-> <<activity_id1, activity_id2, relation_type>>]
    /\ IF ~GOCam_has_activity(activity_id1) \/ ~GOCam_has_activity(activity_id2)
       THEN /\ ret' = "False"
            /\ dropped' = {} /\ UNCHANGED <<node, adj, live>>
       ELSE /\ node' = graph_add_edge_nodes(activity_id1, activity_id2)
            /\ adj' = graph_add_edge_adj(activity_id1, activity_id2, relation_type)
            /\ live' = live \cup {<<activity_id1, activity_id2, relation_type>>}
            /\ dropped' = {}
            /\ ret' = "True"

(* ---------------------------------------------------------------------- *)
(* Python dict: a sequence of [k, v] entries in insertion order, keys      *)
(* unique                                                                  *)
(* ---------------------------------------------------------------------- *)
EmptyDict == << >>

dict_keys(d) == {d[i].k : i \in DOMAIN d}

dict_has(d, key) == key \in dict_keys(d)

dict_get(d, key) == d[CHOOSE i \in DOMAIN d : d[i].k = key].v

\* d[key] = value: an existing key keeps its position
dict_set(d, key, value) ==
    IF dict_has(d, key)
    THEN [i \in DOMAIN d |-> IF d[i].k = key THEN [k |-> key, v |-> value] ELSE d[i]]
    ELSE Append(d, [k |-> key, v |-> value])

\* d.pop(key) on a key that is present
dict_pop(d, key) == SelectSeq(d, LAMBDA e : e.k # key)

(* ---------------------------------------------------------------------- *)
(* Evidence: the contributor map                                           *)
(* ---------------------------------------------------------------------- *)
ContributorIds == {"orcid:" \o ToString(i) : i \in 1..NumContributors}
ContributorNames == {"n1", "n2"}
Contributors == [id : ContributorIds, label : ContributorNames]

Evidence_set_contributor(contributor) ==
    /\ call' = [op |-> "set_contributor", args |-> <<contributor>>]
    /\ contributors' = dict_set(EmptyDict, contributor.id, contributor)
    /\ ret' = "None"

\* variant: upsert, as GOCam.add_contributor does
Evidence_add_contributor_upsert(contributor) ==
    /\ call' = [op |-> "add_contributor", args |-> <<contributor>>]
    /\ contributors' = dict_set(contributors, contributor.id, contributor)
    /\ ret' = IF dict_has(contributors, contributor.id) THEN "False" ELSE "True"

Evidence_add_contributor(contributor) ==
    /\ call' = [op |-> "add_contributor", args |-> <<contributor>>]
    /\ IF dict_has(contributors, contributor.id)
       THEN /\ ret' = "False"
            /\ UNCHANGED contributors
       ELSE /\ contributors' = dict_set(contributors, contributor.id, contributor)
            /\ ret' = "True"

\* Evidence.__init__: the contributor map after construction
Evidence_init_contributors(contributor) == dict_set(EmptyDict, contributor.id, contributor)

(* ---------------------------------------------------------------------- *)
(* Activity: the context_targets map                                       *)
(* ---------------------------------------------------------------------- *)
AssociationIds == {"assoc:" \o ToString(i) : i \in 1..NumAssociations}
Associations == [id : AssociationIds, obj : Payloads]

Activity_has_context(context_association) ==
    dict_has(context_targets, context_association.id)

Activity_add_context(context_association) ==
    /\ call' = [op |-> "Activity.add_context", args |-> <<context_association>>]
    /\ IF Activity_has_context(context_association)
       THEN /\ ret' = "False"
            /\ UNCHANGED context_targets
       ELSE /\ context_targets' = dict_set(context_targets, context_association.id,
                                           context_association)
            /\ ret' = "True"

\* variant: an absent id empties the map
Activity_remove_context_clear(context_association) ==
    /\ call' = [op |-> "Activity.remove_context", args |-> <<context_association>>]
    /\ IF ~Activity_has_context(context_association)
       THEN /\ ret' = "False"
            /\ context_targets' = EmptyDict
       ELSE /\ context_targets' = dict_pop(context_targets, context_association.id)
            /\ ret' = "True"

Activity_remove_context(context_association) ==
    /\ call' = [op |-> "Activity.remove_context", args |-> <<context_association>>]
    /\ IF ~Activity_has_context(context_association)
       THEN /\ ret' = "False"
            /\ UNCHANGED context_targets
       ELSE /\ context_targets' = dict_pop(context_targets, context_association.id)
            /\ ret' = "True"

(* ---------------------------------------------------------------------- *)
(* EvidencedRelationship: the evidence map; GOCam: the context catalog     *)
(* ---------------------------------------------------------------------- *)
EvidenceIds == {"ECO:0000314", "e2"}
CatalogEvidences == [id : EvidenceIds, obj : Payloads]
ContextIds == {"GO:0005634", "GO:0006915"}
CatalogContexts == [id : ContextIds, obj : Payloads]

\* self.evidences is whatever set_evidences was given: a dict keyed by
\* evidence id, or (as its annotation [Evidence] suggests) a list
DictOf(d) == [kind |-> "dict", items |-> d]
ListOf(l) == [kind |-> "list", items |-> l]

SetEvidencesInputs ==
    {DictOf(EmptyDict), ListOf(<< >>)}
    \cup {DictOf(dict_set(EmptyDict, e.id, e)) : e \in CatalogEvidences}
    \cup {ListOf(<<e>>) : e \in CatalogEvidences}

EvidencedRelationship_set_evidences(evs) ==
    /\ call' = [op |-> "set_evidences", args |-> <<evs>>]
    /\ evidences' = evs
    /\ ret' = "None"
    /\ UNCHANGED contexts

\* a list subscripted with an id raises TypeError
EvidencedRelationship_add_evidence(evidence) ==
    /\ call' = [op |-> "add_evidence", args |-> <<evidence>>]
    /\ IF evidences.kind = "list"
       THEN /\ ret' = "TypeError"
            /\ UNCHANGED evidences
       ELSE /\ evidences' = DictOf(dict_set(evidences.items, evidence.id, evidence))
            /\ ret' = "None"
    /\ UNCHANGED contexts

\* list.pop(id) raises TypeError, dict.pop(id) raises KeyError on an absent id
EvidencedRelationship_remove_evidence(evidence_id) ==
    /\ call' = [op |-> "remove_evidence", args |-> <<evidence_id>>]
    /\ IF evidences.kind = "list"
       THEN /\ ret' = "TypeError"
            /\ UNCHANGED evidences
       ELSE IF dict_has(evidences.items, evidence_id)
            THEN /\ evidences' = DictOf(dict_pop(evidences.items, evidence_id))
                 /\ ret' = "None"
            ELSE /\ ret' = "KeyError"
                 /\ UNCHANGED evidences
    /\ UNCHANGED contexts

GOCam_add_context(context) ==
    /\ call' = [op |-> "GOCam.add_context", args |-> <<context>>]
    /\ contexts' = dict_set(contexts, context.id, context)
    /\ ret' = "None"
    /\ UNCHANGED evidences

GOCam_remove_context(context_id) ==
    /\ call' = [op |-> "GOCam.remove_context", args |-> <<context_id>>]
    /\ IF dict_has(contexts, context_id)
       THEN /\ contexts' = dict_pop(contexts, context_id)
            /\ ret' = "None"
       ELSE /\ ret' = "KeyError"
            /\ UNCHANGED contexts
    /\ UNCHANGED evidences

GOCam_has_context(context_id) ==
    /\ call' = [op |-> "GOCam.has_context", args |-> <<context_id>>]
    /\ ret' = IF dict_has(contexts, context_id) THEN "True" ELSE "False"
    /\ UNCHANGED <<evidences, contexts>>

(* ---------------------------------------------------------------------- *)
(* Term, aspect classification and the role constructors                   *)
(* ---------------------------------------------------------------------- *)
MF_ID == "GO:0003674"
BP_ID == "GO:0008150"
CC_ID == "GO:0005575"

\* references to the root Term objects an aspect may point to; NoneRef is None
NoneRef == "None"
AspectRefs == {"mf", "bp", "cc"}
AspectId(ref) == CASE ref = "mf" -> MF_ID [] ref = "bp" -> BP_ID [] ref = "cc" -> CC_ID

NoObject == [cls |-> "none"]

TermIds == {"GO:0016301", "GO:0005634", "GO:0006915"}
TermLabels == {"kinase activity", "nucleus"}
TermTypes == {"term", "context", "activity"}

Term_init(term_id, term_label) ==
    [cls |-> "Term", id |-> term_id, label |-> term_label, type |-> "term",
     aspect |-> NoneRef]

\* self.aspect.get_id() == "GO:..." : None has no get_id
Term_is_mf(self) ==
    IF self.aspect = NoneRef THEN "AttributeError"
    ELSE IF AspectId(self.aspect) = MF_ID THEN "True" ELSE "False"

Term_is_bp(self) ==
    IF self.aspect = NoneRef THEN "AttributeError"
    ELSE IF AspectId(self.aspect) = BP_ID THEN "True" ELSE "False"

Term_is_cc(self) ==
    IF self.aspect = NoneRef THEN "AttributeError"
    ELSE IF AspectId(self.aspect) = CC_ID THEN "True" ELSE "False"

Term_set_aspect(aspect) ==
    /\ call' = [op |-> "set_aspect", args |-> <<aspect>>]
    /\ term' = [term EXCEPT !.aspect = aspect]
    /\ ret' = "None"
    /\ UNCHANGED made

\* the setters Term inherits from NamedEntity and TypedNamedEntity
Term_set_id(id) ==
    /\ call' = [op |-> "set_id", args |-> <<id>>]
    /\ term' = [term EXCEPT !.id = id]
    /\ ret' = "None"
    /\ UNCHANGED made

Term_set_label(label) ==
    /\ call' = [op |-> "set_label", args |-> <<label>>]
    /\ term' = [term EXCEPT !.label = label]
    /\ ret' = "None"
    /\ UNCHANGED made

Term_set_type(type) ==
    /\ call' = [op |-> "set_type", args |-> <<type>>]
    /\ term' = [term EXCEPT !.type = type]
    /\ ret' = "None"
    /\ UNCHANGED made

Term_classify(which) ==
    /\ call' = [op |-> which, args |-> << >>]
    /\ ret' = CASE which = "is_mf" -> Term_is_mf(term)
                [] which = "is_bp" -> Term_is_bp(term)
                [] which = "is_cc" -> Term_is_cc(term)
    /\ UNCHANGED <<term, made>>

\* Activity(activity_id, activity_label)
Activity_init(activity_id, activity_label) ==
    LET self == [Term_init(activity_id, activity_label) EXCEPT !.type = "activity"]
        mf == Term_is_mf(self)
    IN /\ call' = [op |-> "Activity", args |-> <<activity_id, activity_label>>]
       /\ IF mf = "AttributeError"
          THEN ret' = "AttributeError" /\ made' = NoObject
          ELSE IF mf = "False"
               THEN ret' = "Exception" /\ made' = NoObject
               ELSE ret' = "ok" /\ made' = [self EXCEPT !.cls = "Activity"]
       /\ UNCHANGED term

\* Context(term)
Context_init(t) ==
    LET self == [Term_init(t.id, t.label) EXCEPT !.type = "context"]
        mf == Term_is_mf(self)
    IN /\ call' = [op |-> "Context", args |-> <<t>>]
       /\ IF mf = "AttributeError"
          THEN ret' = "AttributeError" /\ made' = NoObject
          ELSE IF mf = "True"
               THEN ret' = "Exception" /\ made' = NoObject
               ELSE ret' = "ok" /\ made' = [self EXCEPT !.cls = "Context"]
       /\ UNCHANGED term

(* ---------------------------------------------------------------------- *)
(* same()                                                                  *)
(* ---------------------------------------------------------------------- *)
TypedNamedEntity_same(self, entity) ==
    IF self.id # entity.id \/ self.label # entity.label \/ self.type # entity.type
    THEN "False" ELSE "True"

\* self.aspect == term.aspect compares the two references
Term_same(self, t) ==
    IF self.id # t.id \/ self.label # t.label \/ self.type # t.type
    THEN "False"
    ELSE IF self.aspect = t.aspect THEN "True" ELSE "False"

GeneProduct_same(self, gene_product) ==
    IF self.id # gene_product.id \/ self.label # gene_product.label
       \/ self.type # gene_product.type
    THEN "False"
    ELSE TypedNamedEntity_same(self.taxon, gene_product.taxon)

Evidence_same(self, evidence) ==
    IF TypedNamedEntity_same(self, evidence) # "True" THEN "False"
    ELSE IF Len(self.contributors) # Len(evidence.contributors) THEN "False"
    ELSE IF \E contributor_id \in dict_keys(evidence.contributors) :
               ~dict_has(self.contributors, contributor_id)
         THEN "False" ELSE "True"

\* the characters of an evidence id, as "for key,val in self.evidences" unpacks them
IdChars(k) == CASE k = "e2" -> <<"e", "2">>
                [] k = "ECO:0000314" -> <<"E", "C", "O", ":", "0", "0", "0", "0", "3", "1", "4">>

\* The loop iterates the keys of self.evidences and unpacks each key into
\* (key, val); its first iteration returns or raises, and an empty map falls
\* through to the end of the function, which returns None.
EvidencedRelationship_same(self, relation) ==
    IF TypedNamedEntity_same(self, relation) # "True" THEN "False"
    ELSE IF Len(self.evidences) # Len(relation.evidences) THEN "False"
    ELSE IF Len(self.evidences) = 0 THEN "None"
    ELSE LET chars == IdChars(self.evidences[1].k) IN
         IF Len(chars) # 2 THEN "ValueError"
         ELSE IF ~dict_has(relation.evidences, chars[1]) THEN "False"
         ELSE "AttributeError"

same(self, other) ==
    CASE self.cls = "Term" -> Term_same(self, other)
      [] self.cls = "GeneProduct" -> GeneProduct_same(self, other)
      [] self.cls = "Evidence" -> Evidence_same(self, other)
      [] self.cls = "EvidencedRelationship" -> EvidencedRelationship_same(self, other)

Same_xy ==
    /\ call' = [op |-> "same_xy", args |-> << >>]
    /\ ret' = same(x, y)
    /\ UNCHANGED <<x, y>>

Same_xx ==
    /\ call' = [op |-> "same_xx", args |-> << >>]
    /\ ret' = same(x, x)
    /\ UNCHANGED <<x, y>>

\* the entities same() is applied to
SameIds == {"i1", "i2"}
SameLabels == {"l1", "l2"}
Dates == {"2020-01-01", "2020-01-02"}

TermInputs ==
    [cls : {"Term"}, id : SameIds, label : SameLabels, type : {"term", "context"},
     aspect : AspectRefs \cup {NoneRef}]

Taxons ==
    [cls : {"Taxon"}, id : {"NCBITaxon:9606", "NCBITaxon:10090"},
     label : {"human", "mouse"}, type : {"taxon"}]

GeneProductInputs ==
    [cls : {"GeneProduct"}, id : SameIds, label : SameLabels, type : {"gene_product"},
     taxon : Taxons]

C_1 == [id |-> "orcid:1", label |-> "n1"]
C_2 == [id |-> "orcid:2", label |-> "n1"]

\* contributor maps reachable from Evidence.__init__ by add_contributor
ContributorDicts ==
    { Evidence_init_contributors(C_1), Evidence_init_contributors(C_2),
      dict_set(Evidence_init_contributors(C_1), C_2.id, C_2),
      dict_set(Evidence_init_contributors(C_2), C_1.id, C_1) }

EvidenceInputs ==
    [cls : {"Evidence"}, id : SameIds, label : SameLabels, type : {"evidence"},
     contributors : ContributorDicts, date : Dates]

E_1 == [cls |-> "Evidence", id |-> "ECO:0000314", label |-> "l1", type |-> "evidence",
        contributors |-> Evidence_init_contributors(C_1), date |-> "2020-01-01"]
E_2 == [cls |-> "Evidence", id |-> "e2", label |-> "l1", type |-> "evidence",
        contributors |-> Evidence_init_contributors(C_1), date |-> "2020-01-01"]

\* evidence maps reachable from EvidencedRelationship.__init__ by add_evidence
EvidenceDicts ==
    { EmptyDict, dict_set(EmptyDict, E_1.id, E_1), dict_set(EmptyDict, E_2.id, E_2),
      dict_set(dict_set(EmptyDict, E_1.id, E_1), E_2.id, E_2),
      dict_set(dict_set(EmptyDict, E_2.id, E_2), E_1.id, E_1) }

RelationshipInputs ==
    [cls : {"EvidencedRelationship"}, id : SameIds, label : SameLabels,
     type : {"relationship"}, evidences : EvidenceDicts]

(* ---------------------------------------------------------------------- *)
(* Specifications                                                          *)
(* ---------------------------------------------------------------------- *)
IdleGraph == node = << >> /\ adj = << >> /\ live = {} /\ dropped = {}
IdleEvidence == contributors = EmptyDict
IdleActivity == context_targets = EmptyDict
IdleCatalog == evidences = DictOf(EmptyDict) /\ contexts = EmptyDict
IdleRole == term = NoObject /\ made = NoObject
IdleSame == x = NoObject /\ y = NoObject
NoCall == call = [op |-> "init", args |-> << >>] /\ ret = "None"

\* GOCam(model_id, model_title): an empty graph
InitGOCam ==
    /\ IdleGraph /\ IdleEvidence /\ IdleActivity /\ IdleCatalog /\ IdleRole /\ IdleSame
    /\ NoCall

NextGOCam ==
    \/ \E a \in Activities : GOCam_add_activity(a) /\ UNCHANGED otherVars
    \/ \E i \in ActivityIds : GOCam_remove_activity(i) /\ UNCHANGED otherVars
    \/ \E a, b \in ActivityIds, ty \in RelationTypes :
          GOCam_has_causal_relationship(a, b, ty) /\ UNCHANGED otherVars
    \/ \E a, b \in ActivityIds, ty \in RelationTypes :
          /\ (GOCam_has_activity(a) /\ GOCam_has_activity(b)) => NumEdges < MaxEdges
          /\ GOCam_add_causal_relationship(a, b, ty)
          /\ UNCHANGED otherVars

Spec == InitGOCam /\ [][NextGOCam]_vars

\* Evidence(evidence_id, evidence_label, contributor)
InitEvidence ==
    /\ IdleGraph /\ IdleActivity /\ IdleCatalog /\ IdleRole /\ IdleSame /\ NoCall
    /\ \E c \in Contributors : contributors = Evidence_init_contributors(c)

NextEvidence ==
    \/ \E c \in Contributors :
          Evidence_set_contributor(c)
          /\ UNCHANGED <<graphVars, context_targets, evidences, contexts, term, made, x, y>>
    \/ \E c \in Contributors :
          Evidence_add_contributor(c)
          /\ UNCHANGED <<graphVars, context_targets, evidences, contexts, term, made, x, y>>

SpecEvidence == InitEvidence /\ [][NextEvidence]_vars

\* an Activity after line 358 of its constructor: no context association yet
InitActivity ==
    /\ IdleGraph /\ IdleEvidence /\ IdleActivity /\ IdleCatalog /\ IdleRole /\ IdleSame
    /\ NoCall

NextActivity ==
    \/ \E a \in Associations :
          Activity_add_context(a)
          /\ UNCHANGED <<graphVars, contributors, evidences, contexts, term, made, x, y>>
    \/ \E a \in Associations :
          Activity_remove_context(a)
          /\ UNCHANGED <<graphVars, contributors, evidences, contexts, term, made, x, y>>

SpecActivity == InitActivity /\ [][NextActivity]_vars

\* EvidencedRelationship(...) and GOCam(...): both maps empty
InitCatalog ==
    /\ IdleGraph /\ IdleEvidence /\ IdleActivity /\ IdleCatalog /\ IdleRole /\ IdleSame
    /\ NoCall

NextCatalog ==
    \/ \E evs \in SetEvidencesInputs :
          EvidencedRelationship_set_evidences(evs)
          /\ UNCHANGED <<graphVars, contributors, context_targets, term, made, x, y>>
    \/ \E e \in CatalogEvidences :
          EvidencedRelationship_add_evidence(e)
          /\ UNCHANGED <<graphVars, contributors, context_targets, term, made, x, y>>
    \/ \E i \in EvidenceIds :
          EvidencedRelationship_remove_evidence(i)
          /\ UNCHANGED <<graphVars, contributors, context_targets, term, made, x, y>>
    \/ \E c \in CatalogContexts :
          GOCam_add_context(c)
          /\ UNCHANGED <<graphVars, contributors, context_targets, term, made, x, y>>
    \/ \E i \in ContextIds :
          GOCam_remove_context(i)
          /\ UNCHANGED <<graphVars, contributors, context_targets, term, made, x, y>>
    \/ \E i \in ContextIds :
          GOCam_has_context(i)
          /\ UNCHANGED <<graphVars, contributors, context_targets, term, made, x, y>>

SpecCatalog == InitCatalog /\ [][NextCatalog]_vars

\* Term(term_id, term_label)
InitRole ==
    /\ IdleGraph /\ IdleEvidence /\ IdleActivity /\ IdleCatalog /\ IdleSame /\ NoCall
    /\ made = NoObject
    /\ \E i \in TermIds, l \in TermLabels : term = Term_init(i, l)

NextRole ==
    \/ \E a \in AspectRefs \cup {NoneRef} :
          Term_set_aspect(a)
          /\ UNCHANGED <<graphVars, contributors, context_targets, evidences, contexts, x, y>>
    \/ \E i \in TermIds :
          Term_set_id(i)
          /\ UNCHANGED <<graphVars, contributors, context_targets, evidences, contexts, x, y>>
    \/ \E l \in TermLabels :
          Term_set_label(l)
          /\ UNCHANGED <<graphVars, contributors, context_targets, evidences, contexts, x, y>>
    \/ \E t \in TermTypes :
          Term_set_type(t)
          /\ UNCHANGED <<graphVars, contributors, context_targets, evidences, contexts, x, y>>
    \/ \E w \in {"is_mf", "is_bp", "is_cc"} :
          Term_classify(w)
          /\ UNCHANGED <<graphVars, contributors, context_targets, evidences, contexts, x, y>>
    \/ Activity_init(term.id, term.label)
          /\ UNCHANGED <<graphVars, contributors, context_targets, evidences, contexts, x, y>>
    \/ Context_init(term)
          /\ UNCHANGED <<graphVars, contributors, context_targets, evidences, contexts, x, y>>

SpecRole == InitRole /\ [][NextRole]_vars

InitSame ==
    /\ IdleGraph /\ IdleEvidence /\ IdleActivity /\ IdleCatalog /\ IdleRole /\ NoCall
    /\ \E S \in {TermInputs, GeneProductInputs, EvidenceInputs, RelationshipInputs} :
          x \in S /\ y \in S

NextSame ==
    \/ Same_xy
          /\ UNCHANGED <<graphVars, contributors, context_targets, evidences, contexts,
                         term, made>>
    \/ Same_xx
          /\ UNCHANGED <<graphVars, contributors, context_targets, evidences, contexts,
                         term, made>>

SpecSame == InitSame /\ [][NextSame]_vars

(* ---------------------------------------------------------------------- *)
(* Properties of the GOCam graph (Spec)                                    *)
(* ---------------------------------------------------------------------- *)
Incident(id) == {p \in DOMAIN adj : p[1] = id \/ p[2] = id}

EdgeCount(a, u, v, ty) ==
    IF <<u, v>> \in DOMAIN a
    THEN Cardinality({k \in DOMAIN a[<<u, v>>] : a[<<u, v>>][k] = ty})
    ELSE 0

\* C1: both endpoints of every causal edge are registered Activity nodes; a
\* node removed by remove_activity is gone together with every edge it was
\* the source or the target of, and a node just registered has no incident edge.
C1_EdgeEndpointsRegistered ==
    /\ \A p \in DOMAIN adj :
          /\ p[1] \in DOMAIN node /\ node[p[1]] \in Payloads
          /\ p[2] \in DOMAIN node /\ node[p[2]] \in Payloads
    /\ (call.op = "remove_activity" /\ ret = "True") =>
          (call.args[1] \notin DOMAIN node /\ Incident(call.args[1]) = {})
    /\ (call.op = "add_activity" /\ ret = "True") =>
          (call.args[1].id \in DOMAIN node /\ Incident(call.args[1].id) = {})

\* a removal that deleted an outgoing and an incoming edge of the node
C1_Witness ==
    /\ call.op = "remove_activity" /\ ret = "True"
    /\ \E p \in dropped : p[1] = call.args[1] /\ p[2] # call.args[1]
    /\ \E p \in dropped : p[2] = call.args[1] /\ p[1] # call.args[1]

\* C2: has_causal_relationship(a,b,ty) returns true if an earlier
\* add_causal_relationship(a,b,ty) succeeded and neither endpoint was removed
\* since, and returns false in every other case.
C2_HasCausalRelationshipDecides ==
    call.op = "has_causal_relationship" =>
        ret = (IF <<call.args[1], call.args[2], call.args[3]>> \in live
               THEN "True" ELSE "False")

\* C3: add_activity returns true and inserts the node when the id is new;
\* when the id is registered it returns false and leaves nodes, the object
\* stored for the id, and edges as they were.
C3_AddActivityFirstWins ==
    [][call'.op = "add_activity" =>
         LET a == call'.args[1] IN
         IF a.id \in DOMAIN node
         THEN ret' = "False" /\ node' = node /\ adj' = adj
         ELSE /\ ret' = "True"
              /\ DOMAIN node' = (DOMAIN node) \cup {a.id}
              /\ node'[a.id] = a.obj
              /\ \A n \in DOMAIN node : node'[n] = node[n]
              /\ adj' = adj]_vars

\* a second Activity object with a registered id was refused
C3_Witness ==
    /\ call.op = "add_activity" /\ ret = "False"
    /\ node[call.args[1].id] # call.args[1].obj
    /\ DOMAIN adj # {}

\* C4: add_causal_relationship returns true exactly when both endpoints are
\* registered; a false call changes nothing; a true call adds exactly one
\* parallel edge (src,dst,type) and changes no other edge, also when such an
\* edge exists already.
C4_AddCausalRelationship ==
    [][call'.op = "add_causal_relationship" =>
         LET a == call'.args[1]
             b == call'.args[2]
             ty == call'.args[3]
         IN IF a \in DOMAIN node /\ b \in DOMAIN node
            THEN /\ ret' = "True"
                 /\ node' = node
                 /\ \A u, v \in ActivityIds, t \in RelationTypes :
                       EdgeCount(adj', u, v, t) =
                          EdgeCount(adj, u, v, t) + (IF <<u, v, t>> = <<a, b, ty>> THEN 1 ELSE 0)
            ELSE ret' = "False" /\ node' = node /\ adj' = adj]_vars

\* the same (src,dst,type) was added twice and both edges are there
C4_Witness ==
    /\ call.op = "add_causal_relationship" /\ ret = "True"
    /\ EdgeCount(adj, call.args[1], call.args[2], call.args[3]) >= 2

(* ---------------------------------------------------------------------- *)
(* Properties of the role constructors (SpecRole)                          *)
(* ---------------------------------------------------------------------- *)
\* C5: constructing an Activity from a Term succeeds when the Term's aspect
\* is molecular_function and fails with InvalidAspect for any other aspect;
\* no Activity exists whose aspect is not molecular_function.
C5_ActivityRequiresMF ==
    /\ (call.op = "Activity" /\ term.aspect # NoneRef) =>
          IF AspectId(term.aspect) = MF_ID
          THEN ret = "ok" /\ made.cls = "Activity"
          ELSE ret = "Exception" /\ made = NoObject
    /\ made.cls = "Activity" => Term_is_mf(made) = "True"

\* C6: constructing a Context from a Term fails with InvalidAspect when the
\* Term's aspect is molecular_function and succeeds when it is
\* biological_process or cellular_component.
C6_ContextRejectsMF ==
    (call.op = "Context" /\ term.aspect # NoneRef) =>
        IF AspectId(term.aspect) = MF_ID
        THEN ret = "Exception" /\ made = NoObject
        ELSE ret = "ok" /\ made.cls = "Context"

(* ---------------------------------------------------------------------- *)
(* Properties of the Evidence contributor map (SpecEvidence)               *)
(* ---------------------------------------------------------------------- *)
\* C7: the contributor map of an Evidence always holds at least one
\* contributor, and add_contributor with an id already in the map returns
\* failure and leaves the map, and the contributor stored under the id, as
\* they were.
C7_ContributorsKept ==
    /\ [](Len(contributors) >= 1)
    /\ [][(call'.op = "add_contributor" /\ dict_has(contributors, call'.args[1].id)) =>
            (ret' = "False" /\ contributors' = contributors)]_vars

\* a second contributor object with an id of the map was refused
C7_Witness ==
    /\ call.op = "add_contributor" /\ ret = "False"
    /\ Len(contributors) >= 2
    /\ dict_get(contributors, call.args[1].id) # call.args[1]

(* ---------------------------------------------------------------------- *)
(* Properties of the Activity context map (SpecActivity)                   *)
(* ---------------------------------------------------------------------- *)
\* C8: add_context with an association id of the map and remove_context with
\* an id not in the map return failure without raising and leave the map
\* unchanged; the successful calls insert or delete exactly the entry of that
\* id and touch no other entry.
C8_ContextTargets ==
    [][/\ call'.op = "Activity.add_context" =>
            LET a == call'.args[1] IN
            IF dict_has(context_targets, a.id)
            THEN ret' = "False" /\ context_targets' = context_targets
            ELSE /\ ret' = "True"
                 /\ dict_keys(context_targets') = dict_keys(context_targets) \cup {a.id}
                 /\ dict_get(context_targets', a.id) = a
                 /\ \A k \in dict_keys(context_targets) :
                       dict_get(context_targets', k) = dict_get(context_targets, k)
       /\ call'.op = "Activity.remove_context" =>
            LET a == call'.args[1] IN
            IF ~dict_has(context_targets, a.id)
            THEN ret' = "False" /\ context_targets' = context_targets
            ELSE /\ ret' = "True"
                 /\ dict_keys(context_targets') = dict_keys(context_targets) \ {a.id}
                 /\ \A k \in dict_keys(context_targets') :
                       dict_get(context_targets', k) = dict_get(context_targets, k)]_vars

\* an absent association id was refused while other associations are held
C8_Witness ==
    /\ call.op = "Activity.remove_context" /\ ret = "False"
    /\ Len(context_targets) >= 2
    /\ ~dict_has(context_targets, call.args[1].id)

(* ---------------------------------------------------------------------- *)
(* Properties of the evidence map and the context catalog (SpecCatalog)    *)
(* ---------------------------------------------------------------------- *)
\* C9: remove_evidence and GOCam.remove_context with an id that is not
\* present return a failure value instead of raising, and leave the map as
\* it was.
C9_RemoveAbsentIsBooleanFailure ==
    [][/\ (call'.op = "remove_evidence" /\ evidences.kind = "dict"
              /\ ~dict_has(evidences.items, call'.args[1])) =>
            (ret' = "False" /\ evidences' = evidences)
       /\ (call'.op = "GOCam.remove_context" /\ ~dict_has(contexts, call'.args[1])) =>
            (ret' = "False" /\ contexts' = contexts)]_vars

(* ---------------------------------------------------------------------- *)
(* Properties of same() (SpecSame)                                         *)
(* ---------------------------------------------------------------------- *)
\* x and y differ in a field the comparison is meant to cover
Differ(a, b) ==
    \/ a.id # b.id \/ a.label # b.label \/ a.type # b.type
    \/ a.cls = "Term" /\ a.aspect # b.aspect
    \/ a.cls = "GeneProduct" /\ a.taxon # b.taxon
    \/ a.cls = "Evidence" /\ (dict_keys(a.contributors) # dict_keys(b.contributors)
                             \/ a.date # b.date)
    \/ a.cls = "EvidencedRelationship" /\ dict_keys(a.evidences) # dict_keys(b.evidences)

\* C10: for every entity kind same(x,x) is true, and same(x,y) is false as
\* soon as x and y differ in id, label, kind, aspect, taxon, evidence set,
\* contributor-id set or (Evidence) date.
C10_SameReflexiveAndSensitive ==
    /\ call.op = "same_xx" => ret = "True"
    /\ (call.op = "same_xy" /\ Differ(x, y)) => ret = "False"

TypeOKGraph ==
    /\ DOMAIN node \subseteq ActivityIds
    /\ DOMAIN adj \subseteq ActivityIds \X ActivityIds
====
